---- MODULE Spec2Model ----
(***************************************************************************)
(* Model of the market-analysis agent: MarketAnalysisGraph (agent/graph.py) *)
(* with its two-node LangGraph loop (agent <-> tools), the ToolNode built   *)
(* over the four registered tools, and the report extraction done by run.  *)
(*                                                                         *)
(* Strings are sequences of tokens, so that "marker in str(content)" is a  *)
(* search of the sequence and not a flag.  Every message text ends with a  *)
(* token naming its position, standing for the timestamps / run ids that   *)
(* make real message texts pairwise different.                             *)
(***************************************************************************)
EXTENDS Integers, Sequences, FiniteSets, TLC

\* ---------------------------------------------------------------- bounds
\* Tool-call requests the model stub may choose freely during one run.
MaxFreeCalls == 2
\* Tool-call requests in one model message.
MaxCallsPerTurn == 2

\* Hours the clock of the cache runs for.
MaxClock == 4

\* Calls made to the cache one after the other.
MaxOps == 3

\* Calls each of the concurrent callers of the cache makes.
MaxProcOps == 1

\* ------------------------------------------------------- program constants
\* graph.invoke(initial_state) is called without a config: LangGraph's
\* default recursion_limit (25 super-steps) applies.
RecursionLimit == 25

\* The literal searched by run and written by ReportGeneratorService.generate
\* (the emoji that precedes it in the source is part of the same token).
ReportMarker == "Market Analysis Report"

\* Variant: a registry built without the report tool.
tools_without_report == <<"scrape_product_data", "analyze_competitors",
                          "analyze_sentiment">>

\* self.tools, in registration order.
tools == <<"scrape_product_data", "analyze_competitors",
           "analyze_sentiment", "generate_report">>

\* Variant: the node built as ToolNode(self.tools, handle_tool_errors=False).
handle_tool_errors_off == FALSE

\* ToolNode(self.tools): handle_tool_errors keeps its default.
handle_tool_errors == TRUE

\* ------------------------------------------------------------- strings
HasMarker(content) == \E i \in DOMAIN content : content[i] = ReportMarker

Mentions(content, word) == \E i \in DOMAIN content : content[i] = word

EmptyString == << >>

\* Subjects handed to run: a plain one and one that itself holds the marker.
Subjects == { <<"wireless earbuds">>, <<ReportMarker, "earbuds">> }

\* Tools whose body may be configured to raise on every call.
FailingConfigs == SUBSET {"scrape_product_data", "generate_report"}

\* ------------------------------------------------------------- messages
Message(type, content, tool_calls, name, tool_call_id, status) ==
    [type |-> type, content |-> content, tool_calls |-> tool_calls,
     name |-> name, tool_call_id |-> tool_call_id, status |-> status]

HumanMessage(content) == Message("human", content, << >>, "", 0, "")

AIMessage(content, tool_calls) == Message("ai", content, tool_calls, "", 0, "")

ToolMessage(content, name, tool_call_id, status) ==
    Message("tool", content, << >>, name, tool_call_id, status)

Last(s) == s[Len(s)]

VARIABLES
    product_name,   \* the subject given to run
    raising,        \* the tools whose body raises on every call
    messages,       \* state["messages"], the transcript
    pc,             \* "agent" | "tools" | "done" | "raised"
    step,           \* LangGraph super-steps executed
    llm_calls,      \* number of self.llm.invoke calls made
    decision,       \* last value returned by _should_continue
    next_id,        \* next fresh tool-call request identifier
    budget,         \* free tool-call requests left to the model stub
    stubborn,       \* the model stub now requests the harmless tool forever
    body_runs,      \* request ids whose tool body was entered
    outcome,        \* "running" | "returned" | the exception leaving run
    result,         \* the mapping returned by run
    self_tools,     \* self.tools of the agent instance
    tool_log,       \* one entry per request handed to the tools node, in order
    llm_input,      \* the message list of the latest self.llm.invoke call
    http,            \* the POST /analyze request being served, and its response
    sched,          \* the invocation that runs, the responses each got, the one parked
    report_call,    \* a call of ReportGeneratorService.generate: inputs, outcome
    cache           \* a CacheRepository: clock, files, calls made and in progress

vars == <<product_name, raising, messages, pc, step, llm_calls, decision,
          next_id, budget, stubborn, body_runs, outcome, result,
          self_tools, tool_log, llm_input, http, sched, report_call, cache>>

\* The state of the agent loop and of its HTTP caller.
loop_vars == <<product_name, raising, messages, pc, step, llm_calls, decision,
               next_id, budget, stubborn, body_runs, outcome, result,
               self_tools, tool_log, llm_input, http, sched>>

\* The state of the services exercised on their own.
library_vars == <<report_call, cache>>

\* The names ToolNode resolves requests against.
ToolNames == {self_tools[i] : i \in DOMAIN self_tools}

NoResult == [product_name |-> EmptyString, report |-> EmptyString,
             steps_executed |-> 0]

\* ------------------------------------------------------------ the tools
\* What the decorated function body does for one call: raise or return.
\* scrape_product_data, analyze_competitors and analyze_sentiment return a
\* mapping that repeats their argument (name / category / product);
\* generate_report returns the report text, which starts with the header.
\* An exception object, and str(e).
Exception(type, message) == [type |-> type, message |-> message]

NoException == Exception("", EmptyString)

Str(e) == e.message

\* ToolError(tool_name, message, original_error); str() of it is
\* "[tool_name] message".
ToolError(tool_name, message, original_error) ==
    [type |-> "ToolError", tool_name |-> tool_name, message |-> message,
     original_error |-> original_error]

\* repr(e), as ToolNode prints a caught exception.
Repr(e) ==
    IF e.type = "ToolError"
    THEN <<"ToolError", e.tool_name>> \o e.message
    ELSE <<e.type>> \o e.message

\* Variant: a report generator whose title lost the signature.
ToolFuncPlainTitle(call, pos) ==
    IF call.name \in raising
    THEN [raised |-> TRUE, value |-> EmptyString, shape |-> "",
          exc |-> Exception("RuntimeError", <<"boom">>)]
    ELSE IF call.name = "generate_report"
    THEN [raised |-> FALSE,
          value |-> <<"#", "Report", "Generation Date", ToString(pos)>>,
          shape |-> "str", exc |-> NoException]
    ELSE [raised |-> FALSE,
          value |-> <<"{", call.name>> \o call.args.text
                        \o <<"}", ToString(pos)>>,
          shape |-> "mapping", exc |-> NoException]

\* Variant: a tool that returns its result dumped to a JSON string.
ToolFuncJsonDump(call, pos) ==
    IF call.name \in raising
    THEN [raised |-> TRUE, value |-> EmptyString, shape |-> "",
          exc |-> Exception("RuntimeError", <<"boom">>)]
    ELSE [raised |-> FALSE,
          value |-> <<"{", call.name>> \o call.args.text
                        \o <<"}", ToString(pos)>>,
          shape |-> "str", exc |-> NoException]

\* The undecorated body of a tool: it raises where the tool is configured
\* to fail; generate_report returns the Markdown report as a string, the
\* three data tools return model_dump() of their result, which echoes the
\* argument.
ToolFunc(call, pos) ==
    IF call.name \in raising
    THEN [raised |-> TRUE, value |-> EmptyString, shape |-> "",
          exc |-> Exception("RuntimeError", <<"boom">>)]
    ELSE IF call.name = "generate_report"
    THEN [raised |-> FALSE,
          value |-> <<"#", ReportMarker, "Generation Date", ToString(pos)>>,
          shape |-> "str", exc |-> NoException]
    ELSE [raised |-> FALSE,
          value |-> <<"{", call.name>> \o call.args.text
                        \o <<"}", ToString(pos)>>,
          shape |-> "mapping", exc |-> NoException]

\* Variant: a wrapper that logs and re-raises what it caught.
tool_error_handler_reraise(tool_name, out) == out

\* wrapper of tool_error_handler(tool_name): the value of the function, or
\* ToolError(tool_name, str(e), e) in place of whatever the function raised.
tool_error_handler(tool_name, out) ==
    IF out.raised
    THEN [raised |-> TRUE, value |-> EmptyString, shape |-> "",
          exc |-> ToolError(tool_name, Str(out.exc), out.exc)]
    ELSE out

\* Variant: a tool called with whatever arguments the model sent.
BodyEnteredUnchecked(call) == call.name \in ToolNames

\* The tool body is entered only for a registered name with valid arguments.
BodyEntered(call) == call.name \in ToolNames /\ call.args.valid

\* A call that ends in an exception inside ToolNode (argument validation
\* or the tool itself).
CallThrows(call) ==
    /\ call.name \in ToolNames
    /\ \/ ~call.args.valid
       \/ tool_error_handler(call.name, ToolFunc(call, 0)).raised

\* ToolNode, one request: the ToolMessage that answers it.
RunOne(call, pos) ==
    IF call.name \notin ToolNames
    THEN ToolMessage(<<"Error:", call.name, "is not a valid tool",
                       ToString(pos)>>, call.name, call.id, "error")
    ELSE IF ~call.args.valid
    THEN ToolMessage(<<"Error:", "validation error for", call.name,
                       ToString(pos)>>, call.name, call.id, "error")
    ELSE LET out == tool_error_handler(call.name, ToolFunc(call, pos))
         IN  IF out.raised
             THEN ToolMessage(<<"Error:">> \o Repr(out.exc)
                                  \o <<"Please fix your mistakes.", ToString(pos)>>,
                              call.name, call.id, "error")
             ELSE ToolMessage(out.value, call.name, call.id, "success")

NoOutcome == [raised |-> FALSE, value |-> EmptyString, shape |-> "",
              exc |-> NoException]

\* What the tools node does with one request: the request it hands out,
\* whether the decorated function is entered, what the function does and
\* what its wrapper gives back.
LogEntry(call, pos) ==
    [id |-> call.id, name |-> call.name, entered |-> BodyEntered(call),
     inner |-> IF BodyEntered(call) THEN ToolFunc(call, pos) ELSE NoOutcome,
     outer |-> IF BodyEntered(call)
               THEN tool_error_handler(call.name, ToolFunc(call, pos))
               ELSE NoOutcome]

\* Variant: a tools node that hands the requests out last first.
ToolNodeDispatchReversed(calls, base) ==
    [k \in 1..Len(calls) |->
        LogEntry(calls[Len(calls) + 1 - k], base + Len(calls) + 1 - k)]

\* ToolNode hands the requests of the last model message to its executor
\* in the order of the requests.
ToolNodeDispatch(calls, base) ==
    [k \in 1..Len(calls) |-> LogEntry(calls[k], base + k)]

\* Variant: a tools node that returns its messages last first.
ToolNodeReversed(calls, base) ==
    [k \in 1..Len(calls) |->
        RunOne(calls[Len(calls) + 1 - k], base + Len(calls) + 1 - k)]

\* Variant: a tools node that runs the first request only.
ToolNodeFirstOnly(calls, base) ==
    [k \in 1..1 |-> RunOne(calls[1], base + 1)]

\* Variant: a tools node that skips requests whose name it cannot resolve.
ToolNodeDropUnknown(calls, base) ==
    LET known == SelectSeq(calls, LAMBDA c : c.name \in ToolNames)
    IN  [k \in 1..Len(known) |-> RunOne(known[k], base + k)]

\* ToolNode, all requests of the last model message: one ToolMessage per
\* request, in the order of the requests.
ToolNodeOutputs(calls, base) ==
    [k \in 1..Len(calls) |-> RunOne(calls[k], base + k)]

\* -------------------------------------------------------- the agent loop
SystemMessage(content) == Message("system", content, << >>, "", 0, "")

system_prompt == <<"You are an expert e-commerce market analysis agent.",
                   "You MUST call generate_report as the final step.">>

\* Variant: the system instruction placed after the transcript.
LlmInputSystemLast(msgs) == msgs \o <<SystemMessage(system_prompt)>>

\* messages = [SystemMessage(content=system_prompt)] + state["messages"]
LlmInput(msgs) == <<SystemMessage(system_prompt)>> \o msgs

\* Variant: a node whose result replaces the transcript (a messages field
\* without the add_messages reducer).
agent_node_overwrite(msgs, response) == <<response>>

\* _agent_node returns {"messages": [response]}; the add_messages reducer
\* appends it to the transcript.
agent_node(msgs, response) == Append(msgs, response)

\* Variant: a decision that goes on until the report tool was requested.
should_continue_until_report(msgs) ==
    IF \/ Last(msgs).type = "ai" /\ Len(Last(msgs).tool_calls) > 0
       \/ ~\E i \in DOMAIN msgs : \E k \in DOMAIN msgs[i].tool_calls :
               msgs[i].tool_calls[k].name = "generate_report"
    THEN "continue"
    ELSE "end"

\* Variant: a decision that looks at the whole transcript.
should_continue_any(msgs) ==
    IF \E i \in DOMAIN msgs : Len(msgs[i].tool_calls) > 0
    THEN "continue"
    ELSE "end"

should_continue(msgs) ==
    IF Last(msgs).type = "ai" /\ Len(Last(msgs).tool_calls) > 0
    THEN "continue"
    ELSE "end"

\* ------------------------------------------------------ report extraction
CallsGenerateReportFirst(message) ==
    /\ Len(message.tool_calls) > 0
    /\ message.tool_calls[1].name = "generate_report"

\* First loop of run: reverse scan for a message holding the marker.
RECURSIVE ScanForMarker(_, _)
ScanForMarker(msgs, i) ==
    IF i = 0 THEN EmptyString
    ELSE IF CallsGenerateReportFirst(msgs[i]) THEN ScanForMarker(msgs, i - 1)
    ELSE IF HasMarker(msgs[i].content) THEN msgs[i].content
    ELSE IF msgs[i].type # "human" /\ HasMarker(msgs[i].content)
    THEN msgs[i].content
    ELSE ScanForMarker(msgs, i - 1)

\* Second loop of run: reverse scan for a message named generate_report.
RECURSIVE ScanForReportTool(_, _)
ScanForReportTool(msgs, i) ==
    IF i = 0 THEN EmptyString
    ELSE IF msgs[i].name = "generate_report" THEN msgs[i].content
    ELSE ScanForReportTool(msgs, i - 1)

\* Variant: run without its last fallback.
NoFallback(msgs, final_report) == final_report

LastMessageFallback(msgs, final_report) ==
    IF final_report = EmptyString /\ Len(msgs) > 0
    THEN Last(msgs).content
    ELSE final_report

\* Variant: run trusting the last message outright.
ExtractLastMessageOnly(msgs) == Last(msgs).content

ExtractReport(msgs) ==
    LET first  == ScanForMarker(msgs, Len(msgs))
        second == IF first = EmptyString
                  THEN ScanForReportTool(msgs, Len(msgs))
                  ELSE first
    IN  LastMessageFallback(msgs, second)

\* Variant: run taking the name back out of the transcript.
RunResultFromTranscript(subject, msgs) ==
    [product_name |-> msgs[1].content,
     report |-> ExtractReport(msgs),
     steps_executed |-> Len(msgs)]

StepsExecuted(msgs) == Len(msgs)

RunResult(subject, msgs) ==
    [product_name |-> subject,
     report |-> ExtractReport(msgs),
     steps_executed |-> StepsExecuted(msgs)]

\* ------------------------------------------------------- the model stub
AIText(marked, pos) ==
    IF marked THEN <<ReportMarker, "model text", ToString(pos)>>
    ELSE <<"model text", ToString(pos)>>

\* A content given as a list of content blocks, as str() prints it.
BlockOpen == "[{'type': 'text', 'text':"

BlockClose == "}]"

Blocks(text) == <<BlockOpen>> \o text \o <<BlockClose>>

IsBlockList(content) ==
    /\ Len(content) >= 2
    /\ content[1] = BlockOpen
    /\ content[Len(content)] = BlockClose

Args(valid, text) == [valid |-> valid, text |-> text]

\* The requests the model stub chooses from.
CallKinds ==
    { [name |-> "scrape_product_data", args |-> Args(TRUE, product_name)],
      [name |-> "analyze_competitors", args |-> Args(TRUE, <<"Electronics">>)],
      [name |-> "generate_report", args |-> Args(TRUE, <<"{}">>)],
      [name |-> "generate_report", args |-> Args(FALSE, EmptyString)],
      [name |-> "nonexistent_tool", args |-> Args(TRUE, EmptyString)] }

\* The request of the stub that always asks for a harmless tool.
HarmlessCall == [name |-> "analyze_sentiment", args |-> Args(TRUE, <<"earbuds">>)]

WithIds(kinds, first_id) ==
    [k \in 1..Len(kinds) |->
        [name |-> kinds[k].name, args |-> kinds[k].args, id |-> first_id + k - 1]]

\* ------------------------------------------------------ the HTTP layer
\* AnalysisType
AnalysisTypes == {"full", "product_only", "competitor_only", "sentiment_only"}

\* A field of the request body: given or left out.
Given(value) == [given |-> TRUE, value |-> value]

Absent == [given |-> FALSE, value |-> EmptyString]

\* Request bodies posted to /analyze.
Requests ==
    [product_name : {Given(v) : v \in Subjects \cup {EmptyString}} \cup {Absent},
     analysis_type : {Given(<<"full">>), Given(<<"product_only">>),
                      Given(<<"everything">>), Absent},
     include_recommendations : {Given(<<"true">>), Given(<<"false">>),
                                Given(<<"perhaps">>)}]

\* AnalysisRequest: product_name required with min_length 1, analysis_type
\* one of AnalysisType (default full), include_recommendations a boolean
\* (default true).
AnalysisRequestValid(body) ==
    /\ body.product_name.given
    /\ Len(body.product_name.value) >= 1
    /\ body.analysis_type.given => body.analysis_type.value[1] \in AnalysisTypes
    /\ body.include_recommendations.given =>
          body.include_recommendations.value[1] \in {"true", "false"}

extract_text_from_response(response) ==
    IF IsBlockList(response)
    THEN SubSeq(response, 2, Len(response) - 1)
    ELSE response

NoRequest == [product_name |-> Absent, analysis_type |-> Absent,
              include_recommendations |-> Absent]

NoBody == [detail |-> EmptyString]

\* http while run is called directly, as the tests do.
NoHttp == [stage |-> "none", request |-> NoRequest, status |-> 0, body |-> NoBody]

HttpResponse(request, status, body) ==
    [stage |-> "responded", request |-> request, status |-> status, body |-> body]

\* AnalysisResponse(success=True, ...) built by analyze_market.
AnalysisResponse(res) ==
    [success |-> TRUE,
     product_name |-> res.product_name,
     report |-> extract_text_from_response(res.report),
     steps_executed |-> res.steps_executed]

\* Variant: a handler that reports a failure of run in a 200 response
\* with success false.
HttpAfterSoftFailure(p, o, r) ==
    IF http.stage = "none" \/ p \notin {"done", "raised"} THEN http
    ELSE IF o = "returned"
    THEN HttpResponse(http.request, 200, AnalysisResponse(r))
    ELSE HttpResponse(http.request, 200,
                      [AnalysisResponse(r) EXCEPT !.success = FALSE])

\* The rest of analyze_market once run has ended with (p, o, r): the 200
\* response, or HTTPException(500) for whatever run raised.  Nothing to do
\* while the loop runs or when run was called directly.
HttpAfter(p, o, r) ==
    IF http.stage = "none" \/ p \notin {"done", "raised"} THEN http
    ELSE IF o = "returned"
    THEN HttpResponse(http.request, 200, AnalysisResponse(r))
    ELSE HttpResponse(http.request, 500, [detail |-> <<o>>])

\* --------------------------------------------------- the report service
\* A Python value handed to generate: its type and what it holds.
Value(py, text) == [py |-> py, text |-> text]

EmptyDict == Value("dict", "{}")

\* The values generate is tried with: dicts, strings of JSON text and of
\* other text, None, a number, a list.
ReportInputs ==
    { Value("dict", "{...}"), EmptyDict,
      Value("str", "{...}"), Value("str", "{}"), Value("str", "not json"),
      Value("str", "[]"), Value("str", "[...]"), Value("str", "null"),
      Value("NoneType", "None"), Value("int", "5"), Value("list", "[]") }

Returned(value) == [raised |-> FALSE, value |-> value, exc |-> ""]

Raised(exc) == [raised |-> TRUE, value |-> Value("NoneType", "None"), exc |-> exc]

\* json.loads on a str: the value the text denotes, or JSONDecodeError.
json_loads(text) ==
    IF text = "{...}" THEN Returned(Value("dict", "{...}"))
    ELSE IF text = "{}" THEN Returned(EmptyDict)
    ELSE IF text = "[]" THEN Returned(Value("list", "[]"))
    ELSE IF text = "[...]" THEN Returned(Value("list", "[...]"))
    ELSE IF text = "null" THEN Returned(Value("NoneType", "None"))
    ELSE Raised("JSONDecodeError")

\* data[:100], evaluated by the warning of the except clause.
Sliceable(data) == data.py \in {"str", "list"}

\* _parse_json_safely: a dict as it is; otherwise json.loads(data), which
\* raises TypeError for what is neither str nor bytes; the except clause
\* formats data[:100] before it returns {}.
parse_json_safely(data) ==
    IF data.py = "dict" THEN Returned(data)
    ELSE LET loaded == IF data.py = "str" THEN json_loads(data.text)
                       ELSE Raised("TypeError")
         IN  IF ~loaded.raised THEN loaded
             ELSE IF Sliceable(data) THEN Returned(EmptyDict)
             ELSE Raised("TypeError")

\* bool(value)
Truthy(value) == value.text \in {"{...}", "[...]", "5"}

\* value.get exists
HasGet(value) == value.py = "dict"

\* An outcome of generate: what each input was parsed to, and the report
\* or the exception.
GenerateOutcome(parsed, raised, exc) ==
    [parsed |-> parsed, raised |-> raised, exc |-> exc,
     report |-> IF raised THEN EmptyString
                ELSE <<"#", ReportMarker, "Generation Date">>]

\* generate: the three inputs parsed in turn, then the sections; the
\* executive summary calls product.get and sentiment.get outright, the
\* competitor section calls competitors.get unless competitors is falsy.
generate(product_data, competitor_data, sentiment_data) ==
    LET product     == parse_json_safely(product_data)
        competitors == parse_json_safely(competitor_data)
        sentiment   == parse_json_safely(sentiment_data)
        parsed      == <<product, competitors, sentiment>>
    IN  IF product.raised \/ competitors.raised \/ sentiment.raised
        THEN GenerateOutcome(parsed, TRUE, "TypeError")
        ELSE IF ~HasGet(product.value) \/ ~HasGet(sentiment.value)
        THEN GenerateOutcome(parsed, TRUE, "AttributeError")
        ELSE IF Truthy(competitors.value) /\ ~HasGet(competitors.value)
        THEN GenerateOutcome(parsed, TRUE, "AttributeError")
        ELSE GenerateOutcome(parsed, FALSE, "")

NoReportCall == [stage |-> "none"]

\* ------------------------------------------------- the cache repository
\* CacheRepository(default_ttl_hours = 2): the repository under check.
default_ttl_hours == 2

\* (tool_name, input_data) pairs the cache is used with.
CacheUses == { <<"scrape_product_data", "earbuds">>,
               <<"analyze_sentiment", "earbuds">> }

\* _generate_key: the tool name and a digest of the input.
generate_key(tool_name, input_data) == <<tool_name, "md5", input_data>>

CacheKeys == {generate_key(u[1], u[2]) : u \in CacheUses}

\* The ttl_hours argument of set: left out, or a number of hours.
Omitted == [given |-> FALSE, hours |-> 0]

Hours(h) == [given |-> TRUE, hours |-> h]

TtlArgs == {Omitted, Hours(0), Hours(1)}

\* ttl = timedelta(hours=ttl_hours) if ttl_hours else self.default_ttl
Ttl(ttl_hours) ==
    IF ttl_hours.given /\ ttl_hours.hours # 0
    THEN ttl_hours.hours
    ELSE default_ttl_hours

CachedData(key, data, now, ttl, source_tool) ==
    [key |-> key, data |-> data, created_at |-> now, expires_at |-> now + ttl,
     hit_count |-> 0, source_tool |-> source_tool]

NoEntry == [key |-> << >>, data |-> "None", created_at |-> 0, expires_at |-> 0,
            hit_count |-> 0, source_tool |-> ""]

\* A file of the cache directory: absent, opened for writing and still
\* empty, or holding an entry.  inode tells a file from one created under
\* the same name after it was removed.
AbsentFile == [state |-> "absent", entry |-> NoEntry, inode |-> 0]

EmptyFile(inode) == [state |-> "empty", entry |-> NoEntry, inode |-> inode]

File(entry, inode) == [state |-> "written", entry |-> entry, inode |-> inode]

\* datetime.now() > cached.expires_at
Expired(entry, now) == now > entry.expires_at

\* cached.hit_count += 1
Hit(entry) == [entry EXCEPT !.hit_count = @ + 1]

\* A caller of the repository between two calls.
IdleProc == [pc |-> "idle", op |-> "", entry |-> NoEntry, seen |-> NoEntry,
             replaced |-> AbsentFile, inode |-> 0, done |-> 0,
             last |-> [op |-> "", acted |-> "", returned |-> "None",
                       seen |-> NoEntry, replaced |-> AbsentFile]]

CacheProcs == {1, 2}

\* An empty cache directory, nobody calling.
NoCache == [now |-> 0,
            files |-> [k \in CacheKeys |-> AbsentFile],
            next_inode |-> 1,
            history |-> << >>,
            procs |-> [p \in CacheProcs |-> IdleProc]]

\* The services are not exercised while the agent runs.
LibraryIdle ==
    /\ report_call = NoReportCall
    /\ cache = NoCache

\* --------------------------------------------------------- invocations
\* What an invocation holds while another one runs.
NoParked == [pc |-> "none"]

\* No response received yet, by either invocation.
NoScripts == << << >>, << >> >>

\* A single invocation, nothing parked.
Alone == [current |-> 1, scripts |-> NoScripts, parked |-> NoParked]

\* ----------------------------------------------------------------- Init
\* The state run(product_name) starts the graph from.
initial_state(subject) ==
    << HumanMessage(<<"Analyze the market for the product:">> \o subject) >>

RunStart(subject) ==
    /\ product_name = subject
    /\ messages = initial_state(subject)
    /\ pc = "agent"
    /\ self_tools = tools

LoopStart ==
    /\ step = 0
    /\ llm_calls = 0
    /\ decision = "none"
    /\ next_id = 1
    /\ stubborn = FALSE
    /\ body_runs = {}
    /\ outcome = "running"
    /\ result = NoResult
    /\ tool_log = << >>
    /\ llm_input = << >>

\* run(product_name) on a constructed MarketAnalysisGraph.
Init ==
    /\ raising \in FailingConfigs
    /\ \E subject \in Subjects : RunStart(subject)
    /\ LoopStart
    /\ budget = MaxFreeCalls
    /\ http = NoHttp
    /\ sched = Alone
    /\ LibraryIdle

\* One super-step of the agent node with the model answering `response`,
\* then the conditional edge; on "end" graph.invoke returns and run
\* extracts the report and returns.
AgentStep(response) ==
    LET msgs == agent_node(messages, response)
        d    == should_continue(msgs)
    IN  /\ llm_input' = LlmInput(messages)
        /\ UNCHANGED library_vars
        /\ messages' = msgs
        /\ sched' = [sched EXCEPT !.scripts[sched.current] = Append(@, response)]
        /\ step' = step + 1
        /\ llm_calls' = llm_calls + 1
        /\ decision' = d
        /\ next_id' = next_id + Len(response.tool_calls)
        /\ body_runs' = body_runs
        /\ IF d = "end"
           THEN /\ pc' = "done"
                /\ outcome' = "returned"
                /\ result' = RunResult(product_name, msgs)
           ELSE IF step + 1 >= RecursionLimit
           THEN /\ pc' = "raised"
                /\ outcome' = "GraphRecursionError"
                /\ result' = result
           ELSE /\ pc' = "tools"
                /\ outcome' = outcome
                /\ result' = result
        /\ http' = HttpAfter(pc', outcome', result')

\* The model answers without requesting a tool, in a plain string or in a
\* list of content blocks.
AgentFinal ==
    /\ pc = "agent"
    /\ \E marked \in BOOLEAN, blocks \in BOOLEAN :
          LET text == AIText(marked, Len(messages) + 1)
          IN  AgentStep(AIMessage(IF blocks THEN Blocks(text) ELSE text, << >>))
    /\ UNCHANGED <<product_name, raising, budget, stubborn, self_tools, tool_log>>

\* The model requests one or more tools of its choice.
AgentRequest ==
    /\ pc = "agent"
    /\ ~stubborn
    /\ \E marked \in BOOLEAN, n \in 1..MaxCallsPerTurn :
          /\ n <= budget
          /\ \E kinds \in [1..n -> CallKinds] :
                AgentStep(AIMessage(AIText(marked, Len(messages) + 1),
                                    WithIds(kinds, next_id)))
          /\ budget' = budget - n
    /\ UNCHANGED <<product_name, raising, stubborn, self_tools, tool_log>>

\* The model stub that requests the harmless tool on every turn, from the
\* first turn on.
AgentStub ==
    /\ pc = "agent"
    /\ stubborn \/ llm_calls = 0
    /\ AgentStep(AIMessage(AIText(FALSE, Len(messages) + 1),
                           WithIds(<<HarmlessCall>>, next_id)))
    /\ stubborn' = TRUE
    /\ UNCHANGED <<product_name, raising, budget, self_tools, tool_log>>

\* Variant: a node that swallows the failure of the model and lets run
\* return what the transcript holds.
AgentRaiseSwallowed ==
    /\ pc = "agent"
    /\ UNCHANGED library_vars
    /\ llm_input' = LlmInput(messages)
    /\ llm_calls' = llm_calls + 1
    /\ pc' = "done"
    /\ outcome' = "returned"
    /\ result' = RunResult(product_name, messages)
    /\ http' = HttpAfter(pc', outcome', result')
    /\ UNCHANGED <<product_name, raising, messages, step, decision, next_id,
                   budget, stubborn, body_runs, self_tools, tool_log, sched>>

\* self.llm.invoke raises: nothing in _agent_node or run catches it.
AgentRaise ==
    /\ pc = "agent"
    /\ UNCHANGED library_vars
    /\ llm_input' = LlmInput(messages)
    /\ llm_calls' = llm_calls + 1
    /\ pc' = "raised"
    /\ outcome' = "ModelError"
    /\ http' = HttpAfter(pc', outcome', result)
    /\ UNCHANGED <<product_name, raising, messages, step, decision, next_id,
                   budget, stubborn, body_runs, result, self_tools, tool_log,
                   sched>>

\* Variant: a tools node that serves the requests of the first model turn
\* again.
ToolsNodeOldestTurn ==
    /\ pc = "tools"
    /\ UNCHANGED library_vars
    /\ LET calls == messages[2].tool_calls
       IN  IF ~handle_tool_errors /\ \E k \in DOMAIN calls : CallThrows(calls[k])
           THEN /\ pc' = "raised"
                /\ outcome' = "ToolError"
                /\ UNCHANGED <<messages, step>>
                /\ body_runs' = body_runs
                /\ tool_log' = tool_log
           ELSE /\ messages' = messages \o ToolNodeOutputs(calls, Len(messages))
                /\ tool_log' = tool_log \o ToolNodeDispatch(calls, Len(messages))
                /\ step' = step + 1
                /\ body_runs' = body_runs \cup
                       {calls[k].id : k \in {j \in DOMAIN calls : BodyEntered(calls[j])}}
                /\ IF step + 1 >= RecursionLimit
                   THEN pc' = "raised" /\ outcome' = "GraphRecursionError"
                   ELSE pc' = "agent" /\ outcome' = outcome
    /\ http' = HttpAfter(pc', outcome', result)
    /\ UNCHANGED <<product_name, raising, llm_calls, decision, next_id, budget,
                   stubborn, result, self_tools, llm_input, sched>>

\* One super-step of the tools node, then the edge back to the agent.
ToolsNode ==
    /\ pc = "tools"
    /\ UNCHANGED library_vars
    /\ LET calls == Last(messages).tool_calls
       IN  IF ~handle_tool_errors /\ \E k \in DOMAIN calls : CallThrows(calls[k])
           THEN /\ pc' = "raised"
                /\ outcome' = "ToolError"
                /\ UNCHANGED <<messages, step>>
                /\ body_runs' = body_runs
                /\ tool_log' = tool_log
           ELSE /\ messages' = messages \o ToolNodeOutputs(calls, Len(messages))
                /\ tool_log' = tool_log \o ToolNodeDispatch(calls, Len(messages))
                /\ step' = step + 1
                /\ body_runs' = body_runs \cup
                       {calls[k].id : k \in {j \in DOMAIN calls : BodyEntered(calls[j])}}
                /\ IF step + 1 >= RecursionLimit
                   THEN pc' = "raised" /\ outcome' = "GraphRecursionError"
                   ELSE pc' = "agent" /\ outcome' = outcome
    /\ http' = HttpAfter(pc', outcome', result)
    /\ UNCHANGED <<product_name, raising, llm_calls, decision, next_id, budget,
                   stubborn, result, self_tools, llm_input, sched>>

Next ==
    \/ AgentFinal
    \/ AgentRequest
    \/ AgentStub
    \/ AgentRaise
    \/ ToolsNode

Spec == Init /\ [][Next]_vars

\* ------------------------------------------------------- POST /analyze
\* A request body has arrived; FastAPI has not validated it yet.
Received(request) ==
    [stage |-> "received", request |-> request, status |-> 0, body |-> NoBody]

InitApi ==
    /\ raising \in FailingConfigs
    /\ \E request \in Requests : http = Received(request)
    /\ product_name = EmptyString
    /\ messages = << >>
    /\ pc = "request"
    /\ self_tools = << >>
    /\ LoopStart
    /\ budget = MaxFreeCalls
    /\ sched = Alone
    /\ LibraryIdle

\* The body fails validation of AnalysisRequest: FastAPI answers 422 and
\* analyze_market is never entered.
HttpReject ==
    /\ pc = "request"
    /\ UNCHANGED library_vars
    /\ ~AnalysisRequestValid(http.request)
    /\ pc' = "responded"
    /\ http' = HttpResponse(http.request, 422, [detail |-> <<"validation">>])
    /\ UNCHANGED <<product_name, raising, messages, step, llm_calls, decision,
                   next_id, budget, stubborn, body_runs, outcome, result,
                   self_tools, tool_log, llm_input, sched>>

\* MarketAnalysisGraph() raises (get_settings or the model client): the
\* except clause of analyze_market turns it into 500.
HttpConstructFails ==
    /\ pc = "request"
    /\ UNCHANGED library_vars
    /\ AnalysisRequestValid(http.request)
    /\ pc' = "raised"
    /\ outcome' = "ConstructionError"
    /\ http' = HttpAfter(pc', outcome', result)
    /\ UNCHANGED <<product_name, raising, messages, step, llm_calls, decision,
                   next_id, budget, stubborn, body_runs, result, self_tools,
                   tool_log, llm_input, sched>>

\* Variant: a handler that registers only the tools of the analysis type
\* asked for.
HttpRunByType ==
    /\ pc = "request"
    /\ UNCHANGED library_vars
    /\ AnalysisRequestValid(http.request)
    /\ self_tools' =
          IF /\ http.request.analysis_type.given
             /\ http.request.analysis_type.value = <<"product_only">>
          THEN <<"scrape_product_data", "generate_report">>
          ELSE tools
    /\ product_name' = http.request.product_name.value
    /\ messages' = initial_state(http.request.product_name.value)
    /\ pc' = "agent"
    /\ http' = [http EXCEPT !.stage = "running"]
    /\ UNCHANGED <<raising, step, llm_calls, decision, next_id, budget,
                   stubborn, body_runs, outcome, result, tool_log, llm_input,
                   sched>>

\* MarketAnalysisGraph() succeeds and run(request.product_name) starts.
HttpRun ==
    /\ pc = "request"
    /\ UNCHANGED library_vars
    /\ AnalysisRequestValid(http.request)
    /\ self_tools' = tools
    /\ product_name' = http.request.product_name.value
    /\ messages' = initial_state(http.request.product_name.value)
    /\ pc' = "agent"
    /\ http' = [http EXCEPT !.stage = "running"]
    /\ UNCHANGED <<raising, step, llm_calls, decision, next_id, budget,
                   stubborn, body_runs, outcome, result, tool_log, llm_input,
                   sched>>

NextApi ==
    \/ HttpReject
    \/ HttpConstructFails
    \/ HttpRun
    \/ AgentFinal
    \/ AgentRequest
    \/ AgentStub
    \/ AgentRaise
    \/ ToolsNode

SpecApi == InitApi /\ [][NextApi]_vars

\* ----------------------------------------------- two invocations at once
\* What belongs to the invocation that runs: the locals of its run call
\* and of its analyze_market call.
Own ==
    [product_name |-> product_name, messages |-> messages, pc |-> pc,
     step |-> step, llm_calls |-> llm_calls, decision |-> decision,
     next_id |-> next_id, stubborn |-> stubborn, body_runs |-> body_runs,
     outcome |-> outcome, result |-> result, self_tools |-> self_tools,
     tool_log |-> tool_log, llm_input |-> llm_input, http |-> http]

\* An invocation right after MarketAnalysisGraph() and the first lines of
\* run, for a valid request.
Started(request) ==
    [product_name |-> request.product_name.value,
     messages |-> initial_state(request.product_name.value),
     pc |-> "agent", step |-> 0, llm_calls |-> 0, decision |-> "none",
     next_id |-> 1, stubborn |-> FALSE, body_runs |-> {},
     outcome |-> "running", result |-> NoResult, self_tools |-> tools,
     tool_log |-> << >>, llm_input |-> << >>,
     http |-> [Received(request) EXCEPT !.stage = "running"]]

\* Variant: one transcript for the whole process, as a module-level state
\* would give.
ResumeSharedTranscript(own, other) == [own EXCEPT !.messages = other.messages]

\* What an invocation finds when it goes on: its own state, whatever the
\* other invocation did meanwhile.
Resume(own, other) == own

\* Requests that pass validation, with the optional fields left out.
PlainRequests ==
    {r \in Requests : /\ AnalysisRequestValid(r)
                      /\ ~r.analysis_type.given
                      /\ r.include_recommendations.value = <<"true">>}

\* The invocation that runs holds `state`.
Runs(state) ==
    /\ product_name = state.product_name
    /\ messages = state.messages
    /\ pc = state.pc
    /\ step = state.step
    /\ llm_calls = state.llm_calls
    /\ decision = state.decision
    /\ next_id = state.next_id
    /\ stubborn = state.stubborn
    /\ body_runs = state.body_runs
    /\ outcome = state.outcome
    /\ result = state.result
    /\ self_tools = state.self_tools
    /\ tool_log = state.tool_log
    /\ llm_input = state.llm_input
    /\ http = state.http

\* Two valid requests for different subjects, both past construction.  The
\* other order of arrival gives the same behaviours with the two
\* invocations renamed.
InitConc ==
    /\ raising = {"scrape_product_data"}
    /\ budget = MaxFreeCalls
    /\ \E r1 \in PlainRequests, r2 \in PlainRequests :
          /\ ~HasMarker(r1.product_name.value)
          /\ HasMarker(r2.product_name.value)
          /\ Runs(Started(r1))
          /\ sched = [current |-> 1, scripts |-> NoScripts,
                      parked |-> Started(r2)]
    /\ LibraryIdle

\* The scheduler lets the other invocation go on.
Switch ==
    /\ sched.parked # NoParked
    /\ UNCHANGED library_vars
    /\ LET resumed == Resume(sched.parked, Own)
       IN  /\ product_name' = resumed.product_name
           /\ messages' = resumed.messages
           /\ pc' = resumed.pc
           /\ step' = resumed.step
           /\ llm_calls' = resumed.llm_calls
           /\ decision' = resumed.decision
           /\ next_id' = resumed.next_id
           /\ stubborn' = resumed.stubborn
           /\ body_runs' = resumed.body_runs
           /\ outcome' = resumed.outcome
           /\ result' = resumed.result
           /\ self_tools' = resumed.self_tools
           /\ tool_log' = resumed.tool_log
           /\ llm_input' = resumed.llm_input
           /\ http' = resumed.http
    /\ sched' = [sched EXCEPT !.current = 3 - @, !.parked = Own]
    /\ UNCHANGED <<raising, budget>>

NextConc ==
    \/ Switch
    \/ AgentFinal
    \/ AgentRequest
    \/ AgentRaise
    \/ ToolsNode

SpecConc == InitConc /\ [][NextConc]_vars

\* ------------------------------------------ the services on their own
\* No agent is running.
LoopIdle ==
    /\ raising = {}
    /\ budget = 0
    /\ sched = Alone
    /\ Runs([product_name |-> EmptyString, messages |-> << >>, pc |-> "none",
             step |-> 0, llm_calls |-> 0, decision |-> "none", next_id |-> 1,
             stubborn |-> FALSE, body_runs |-> {}, outcome |-> "running",
             result |-> NoResult, self_tools |-> << >>, tool_log |-> << >>,
             llm_input |-> << >>, http |-> NoHttp])

\* ReportGeneratorService().generate is about to be called with three
\* values.
InitReport ==
    /\ LoopIdle
    /\ cache = NoCache
    /\ \E p \in ReportInputs, c \in ReportInputs, s \in ReportInputs :
          report_call = [stage |-> "called", product_data |-> p,
                         competitor_data |-> c, sentiment_data |-> s]

\* generate runs to its end.
Generate ==
    /\ report_call.stage = "called"
    /\ report_call' =
          [stage |-> "ended",
           product_data |-> report_call.product_data,
           competitor_data |-> report_call.competitor_data,
           sentiment_data |-> report_call.sentiment_data,
           outcome |-> generate(report_call.product_data,
                                report_call.competitor_data,
                                report_call.sentiment_data)]
    /\ UNCHANGED <<loop_vars, cache>>

NextReport == Generate

SpecReport == InitReport /\ [][NextReport]_vars

\* An empty cache directory at time 0.
InitCache ==
    /\ LoopIdle
    /\ report_call = NoReportCall
    /\ cache = NoCache

\* An hour passes.
Tick ==
    /\ cache.now < MaxClock
    /\ cache' = [cache EXCEPT !.now = @ + 1]
    /\ UNCHANGED <<loop_vars, report_call>>

\* One call recorded: what was asked, when, and what came back.
CacheCall(op, key, ttl_hours, data, returned) ==
    [op |-> op, key |-> key, ttl_hours |-> ttl_hours, data |-> data,
     at |-> cache.now, returned |-> returned]

\* set(tool_name, input_data, data, ttl_hours) from its first line to its
\* return, nothing else running.
CacheSet ==
    /\ Len(cache.history) < MaxOps
    /\ \E use \in CacheUses, ttl_hours \in TtlArgs :
          LET key    == generate_key(use[1], use[2])
              data   == ToString(Len(cache.history) + 1)
              cached == CachedData(key, data, cache.now, Ttl(ttl_hours), use[1])
          IN  cache' = [cache EXCEPT
                  !.files[key] = File(cached, 1),
                  !.history = Append(@, CacheCall("set", key, ttl_hours,
                                                  data, "key"))]
    /\ UNCHANGED <<loop_vars, report_call>>

\* get(tool_name, input_data) from its first line to its return, nothing
\* else running.
CacheGet ==
    /\ Len(cache.history) < MaxOps
    /\ \E use \in CacheUses :
          LET key    == generate_key(use[1], use[2])
              file   == cache.files[key]
              cached == file.entry
          IN  IF file.state = "absent"
              THEN cache' = [cache EXCEPT
                      !.history = Append(@, CacheCall("get", key, Omitted,
                                                      "None", "None"))]
              ELSE IF Expired(cached, cache.now)
              THEN cache' = [cache EXCEPT
                      !.files[key] = AbsentFile,
                      !.history = Append(@, CacheCall("get", key, Omitted,
                                                      "None", "None"))]
              ELSE cache' = [cache EXCEPT
                      !.files[key] = File(Hit(cached), file.inode),
                      !.history = Append(@, CacheCall("get", key, Omitted,
                                                      "None", cached.data))]
    /\ UNCHANGED <<loop_vars, report_call>>

NextCacheSeq ==
    \/ Tick
    \/ CacheSet
    \/ CacheGet

SpecCacheSeq == InitCache /\ [][NextCacheSeq]_vars

\* The key the concurrent callers share.
SharedKey == generate_key("scrape_product_data", "earbuds")

\* A cache directory that holds an entry for the shared key, written at
\* time 0 by an earlier set, nobody calling yet.
InitCacheShared ==
    /\ LoopIdle
    /\ report_call = NoReportCall
    /\ \E ttl_hours \in TtlArgs :
          cache = [NoCache EXCEPT
                      !.next_inode = 2,
                      !.files[SharedKey] =
                          File(CachedData(SharedKey, "0", 0, Ttl(ttl_hours),
                                          "scrape_product_data"), 1)]

\* Caller p goes from its state to `next`.
Proceed(p, next, files) ==
    cache' = [cache EXCEPT !.procs[p] = next, !.files = files]

\* Caller p ends its call.
Return(proc, acted, returned) ==
    [IdleProc EXCEPT
        !.done = proc.done + 1,
        !.last = [op |-> proc.op, acted |-> acted, returned |-> returned,
                  seen |-> proc.seen, replaced |-> proc.replaced]]

\* set, up to the entry it is going to write (lines 70-80).
SetBegin(p) ==
    LET proc == cache.procs[p]
    IN  /\ proc.pc = "idle"
        /\ proc.done < MaxProcOps
        /\ \E ttl_hours \in TtlArgs :
              Proceed(p, [proc EXCEPT
                             !.pc = "open", !.op = "set",
                             !.entry = CachedData(SharedKey,
                                                  ToString(10 * p + proc.done),
                                                  cache.now, Ttl(ttl_hours),
                                                  "scrape_product_data")],
                      cache.files)
        /\ UNCHANGED <<loop_vars, report_call>>

\* write_text opens the file for writing, which empties it, or creates
\* it when there is none.
WriteOpen(p) ==
    LET proc  == cache.procs[p]
        file  == cache.files[SharedKey]
        fresh == file.state = "absent"
        inode == IF fresh THEN cache.next_inode ELSE file.inode
    IN  /\ proc.pc = "open"
        /\ cache' = [cache EXCEPT
                !.procs[p] = [proc EXCEPT !.pc = "write", !.replaced = file,
                                          !.inode = inode],
                !.files[SharedKey] = EmptyFile(inode),
                !.next_inode = IF fresh THEN @ + 1 ELSE @]
        /\ UNCHANGED <<loop_vars, report_call>>

\* write_text writes the entry and closes; set returns the key, get the
\* data.  What is written to a file that was removed meanwhile is lost
\* with it.  Two writers of one open file: the text of the later write
\* stands (leftover bytes of a longer earlier text are left out).
WriteData(p) ==
    LET proc == cache.procs[p]
        file == cache.files[SharedKey]
    IN  /\ proc.pc = "write"
        /\ Proceed(p, Return(proc, "wrote",
                             IF proc.op = "set" THEN "key" ELSE proc.entry.data),
                   IF file.state # "absent" /\ file.inode = proc.inode
                   THEN [cache.files EXCEPT
                            ![SharedKey] = File(proc.entry, proc.inode)]
                   ELSE cache.files)
        /\ UNCHANGED <<loop_vars, report_call>>

\* get, up to file_path.exists() (lines 85-89).
GetExists(p) ==
    LET proc == cache.procs[p]
    IN  /\ proc.pc = "idle"
        /\ proc.done < MaxProcOps
        /\ IF cache.files[SharedKey].state = "absent"
           THEN Proceed(p, Return([proc EXCEPT !.op = "get"], "", "None"),
                        cache.files)
           ELSE Proceed(p, [proc EXCEPT !.pc = "read", !.op = "get"],
                        cache.files)
        /\ UNCHANGED <<loop_vars, report_call>>

\* get reads and validates the file (line 91): FileNotFoundError when it
\* is gone, a validation error when it is empty.
GetRead(p) ==
    LET proc == cache.procs[p]
        file == cache.files[SharedKey]
    IN  /\ proc.pc = "read"
        /\ IF file.state = "absent"
           THEN Proceed(p, Return(proc, "raised", "FileNotFoundError"),
                        cache.files)
           ELSE IF file.state = "empty"
           THEN Proceed(p, Return(proc, "raised", "ValidationError"),
                        cache.files)
           ELSE Proceed(p, [proc EXCEPT !.pc = "check", !.seen = file.entry],
                        cache.files)
        /\ UNCHANGED <<loop_vars, report_call>>

\* get compares the clock with expires_at (line 93) and counts the hit
\* (line 97).
GetCheck(p) ==
    LET proc == cache.procs[p]
    IN  /\ proc.pc = "check"
        /\ IF Expired(proc.seen, cache.now)
           THEN Proceed(p, [proc EXCEPT !.pc = "unlink"], cache.files)
           ELSE Proceed(p, [proc EXCEPT !.pc = "open",
                                        !.entry = Hit(proc.seen)],
                        cache.files)
        /\ UNCHANGED <<loop_vars, report_call>>

\* get removes the file it found expired (line 94).
GetUnlink(p) ==
    LET proc == cache.procs[p]
        file == cache.files[SharedKey]
    IN  /\ proc.pc = "unlink"
        /\ IF file.state = "absent"
           THEN Proceed(p, Return(proc, "raised", "FileNotFoundError"),
                        cache.files)
           ELSE Proceed(p, Return([proc EXCEPT !.replaced = file],
                                  "unlinked", "None"),
                        [cache.files EXCEPT ![SharedKey] = AbsentFile])
        /\ UNCHANGED <<loop_vars, report_call>>

NextCache ==
    \/ Tick
    \/ \E p \in CacheProcs : SetBegin(p)
    \/ \E p \in CacheProcs : WriteOpen(p)
    \/ \E p \in CacheProcs : WriteData(p)
    \/ \E p \in CacheProcs : GetExists(p)
    \/ \E p \in CacheProcs : GetRead(p)
    \/ \E p \in CacheProcs : GetCheck(p)
    \/ \E p \in CacheProcs : GetUnlink(p)

SpecCache == InitCacheShared /\ [][NextCache]_vars

\* ---------------------------------------------------------------- types
TypeOK ==
    /\ pc \in {"agent", "tools", "done", "raised"}
    /\ outcome \in {"running", "returned", "GraphRecursionError", "ModelError",
                    "ToolError"}
    /\ step \in 0..RecursionLimit
    /\ budget \in 0..MaxFreeCalls
    /\ Len(messages) >= 1
    /\ messages[1].type = "human"

\* ======================================================= claims C1 - C10
Finished == pc \in {"done", "raised"}

AIIndices == {i \in DOMAIN messages : messages[i].type = "ai"}

\* Index of the first model message after position i (Len + 1 if none).
NextAI(i) ==
    LET later == {j \in AIIndices : j > i}
    IN  IF later = {} THEN Len(messages) + 1
        ELSE CHOOSE j \in later : \A l \in later : j <= l

\* Tool-result messages that carry request identifier id.
Answers(id) ==
    {j \in DOMAIN messages :
        messages[j].type = "tool" /\ messages[j].tool_call_id = id}

ReportToolIndices ==
    {j \in DOMAIN messages :
        messages[j].type = "tool" /\ messages[j].name = "generate_report"}

MarkerIndices == {j \in DOMAIN messages : HasMarker(messages[j].content)}

Max(S) == CHOOSE x \in S : \A y \in S : y <= x

\* The most model turns the recursion limit lets through.
MaxModelTurns == (RecursionLimit + 1) \div 2

\* Every model turn so far requested a tool.
AlwaysRequestsTool ==
    \A i \in AIIndices : Len(messages[i].tool_calls) > 0

\* The part of termination that the recursion limit does give: never more
\* than MaxModelTurns model invocations, never more than RecursionLimit
\* super-steps.
ModelInvocationsBounded ==
    /\ llm_calls <= MaxModelTurns
    /\ step <= RecursionLimit
    /\ (outcome = "GraphRecursionError" => llm_calls = MaxModelTurns)

\* C1: whatever the model does (a model that fails apart), a run that has
\* ended has returned, after at most max_turns model invocations.
C1_RunReturnsWithinMaxTurns ==
    (Finished /\ outcome # "ModelError")
        => (outcome = "returned" /\ llm_calls <= MaxModelTurns)

\* C2: the continuation decision taken after a model turn is "continue"
\* exactly when the last message of the transcript carries at least one
\* tool-call request and "end" exactly when it carries none; "end"
\* terminates the loop, "continue" goes to tool execution.
C2_DecisionFromLastMessage ==
    (pc \in {"tools", "done"} \/ outcome = "GraphRecursionError") =>
        /\ Last(messages).type = "ai"
        /\ (decision = "continue" <=> Len(Last(messages).tool_calls) >= 1)
        /\ (decision = "end" <=> Last(messages).tool_calls = << >>)
        /\ (pc = "done" <=> decision = "end")
        /\ (pc = "tools" => decision = "continue")

C2_Witness ==
    /\ pc = "done"
    /\ decision = "end"
    /\ \E i \in AIIndices : Len(messages[i].tool_calls) = 2

\* C3: when a model turn is about to be issued, every tool-call request of
\* every earlier model message has exactly one tool-result message with
\* its identifier, after that model message and before the next one.
C3_ResultCorrelation ==
    pc = "agent" =>
        \A i \in AIIndices : \A k \in DOMAIN messages[i].tool_calls :
            LET answers == Answers(messages[i].tool_calls[k].id)
            IN  /\ Cardinality(answers) = 1
                /\ \A j \in answers : i < j /\ j < NextAI(i)

C3_Witness ==
    /\ pc # "tools"
    /\ Cardinality(AIIndices) >= 2
    /\ \E i \in AIIndices : Len(messages[i].tool_calls) = 2

C5_UnknownToolAnswered ==
    /\ \A i \in AIIndices : \A k \in DOMAIN messages[i].tool_calls :
          LET call == messages[i].tool_calls[k]
          IN  (call.name \notin ToolNames /\ i < Len(messages))
                 => /\ Cardinality(Answers(call.id)) = 1
                    /\ \A j \in Answers(call.id) :
                          /\ i + k = j
                          /\ messages[j].status = "error"
                          /\ Mentions(messages[j].content, call.name)
    /\ (Last(messages).type = "tool" /\ Last(messages).name \notin ToolNames)
          => (pc = "agent" /\ step < RecursionLimit) \/ outcome = "ModelError"

C5_Witness ==
    \E j \in DOMAIN messages :
        /\ messages[j].type = "tool"
        /\ messages[j].name = "nonexistent_tool"
        /\ messages[j].status = "error"
        /\ NextAI(j) <= Len(messages)
        /\ outcome = "returned"

\* C6: when the finished transcript holds a tool-result message from
\* generate_report, the report returned by run is the payload of such a
\* tool-result, whatever model messages follow it.
C6_ReportToolResultWins ==
    (outcome = "returned" /\ ReportToolIndices # {})
        => \E j \in ReportToolIndices : result.report = messages[j].content

C8_LastMessageFallback ==
    (outcome = "returned" /\ ReportToolIndices = {} /\ MarkerIndices = {})
        => result.report = Last(messages).content

C8_Witness ==
    /\ outcome = "returned"
    /\ ReportToolIndices = {}
    /\ MarkerIndices = {}
    /\ Len(messages) >= 4
    /\ result.report = Last(messages).content

\* C9: steps_executed returned by run is the number of model turns taken.
C9_StepsAreModelTurns ==
    outcome = "returned" => result.steps_executed = llm_calls

\* C10: when the model requests a tool on every turn, the run ends by
\* returning a result after exactly max_turns model turns.
C10_BudgetExceededReturns ==
    (Finished /\ outcome # "ModelError" /\ AlwaysRequestsTool)
        => (outcome = "returned" /\ pc = "done" /\ llm_calls = MaxModelTurns
            /\ result.steps_executed > 0)

\* ====================================================== claims C11 - C20
ToolIndices == {j \in DOMAIN messages : messages[j].type = "tool"}

\* Number of tool-result messages before position i.
ToolCountBefore(i) == Cardinality({j \in ToolIndices : j < i})

\* Model messages whose requests the tools node has already served.
ServedAI == {i \in AIIndices : i < Len(messages)}

\* C11: the requests of one model turn are handed out in the order
\* requested, their tool-result messages follow the model message in that
\* same order, and all of them come before the next model message.
C11_DispatchAndAppendInRequestOrder ==
    /\ \A i \in ServedAI : \A k \in DOMAIN messages[i].tool_calls :
          LET calls == messages[i].tool_calls
          IN  /\ i + k <= Len(messages)
              /\ messages[i + k].type = "tool"
              /\ messages[i + k].tool_call_id = calls[k].id
              /\ messages[i + k].name = calls[k].name
              /\ NextAI(i) > i + Len(calls)
              /\ ToolCountBefore(i) + k <= Len(tool_log)
              /\ tool_log[ToolCountBefore(i) + k].id = calls[k].id
    /\ Len(tool_log) = Cardinality(ToolIndices)

C11_Witness ==
    \E i \in ServedAI :
        /\ Len(messages[i].tool_calls) = 2
        /\ messages[i].tool_calls[1].name # messages[i].tool_calls[2].name
        /\ NextAI(i) <= Len(messages)

\* C12: a run that returns yields a mapping with exactly the keys
\* product_name, report and steps_executed, and product_name is the subject
\* that was given, unchanged.
C12_ResultShapeAndSubject ==
    outcome = "returned" =>
        /\ DOMAIN result = {"product_name", "report", "steps_executed"}
        /\ result.product_name = product_name
        /\ messages[1].content =
              <<"Analyze the market for the product:">> \o result.product_name

C12_Witness ==
    /\ outcome = "returned"
    /\ Len(tool_log) >= 2
    /\ HasMarker(result.product_name)
    /\ result.report # messages[1].content

\* C13: where the decorated function returns, its wrapper returns the same
\* value; where it raises e, the wrapper raises a ToolError whose tool_name
\* is the name given to the decorator, whose message is str(e) and whose
\* original_error is e, so the caller never sees e itself.
C13_ToolErrorHandler ==
    \A n \in DOMAIN tool_log :
        LET entry == tool_log[n]
        IN  entry.entered =>
              /\ ~entry.inner.raised => entry.outer = entry.inner
              /\ entry.inner.raised =>
                    /\ entry.outer.raised
                    /\ entry.outer.exc # entry.inner.exc
                    /\ entry.outer.exc.type = "ToolError"
                    /\ entry.outer.exc.tool_name = entry.name
                    /\ entry.outer.exc.message = entry.inner.exc.message
                    /\ entry.outer.exc.original_error = entry.inner.exc

C13_Witness ==
    /\ \E n \in DOMAIN tool_log :
          tool_log[n].entered /\ tool_log[n].inner.raised
    /\ \E n \in DOMAIN tool_log :
          tool_log[n].entered /\ ~tool_log[n].inner.raised

\* Entries of the log whose tool call succeeded.
Succeeded == {n \in DOMAIN tool_log :
                 tool_log[n].entered /\ ~tool_log[n].outer.raised}

\* C14 as claimed: every registered tool that succeeds returns a mapping,
\* never a bare string.
C14_EveryToolReturnsMapping ==
    \A n \in Succeeded : tool_log[n].outer.shape = "mapping"

\* C14 as amended: scrape_product_data, analyze_competitors and
\* analyze_sentiment return a mapping when they succeed; generate_report
\* returns the report as a plain string.
C14_MappingExceptReport ==
    \A n \in Succeeded :
        /\ tool_log[n].name \in ToolNames
        /\ tool_log[n].name # "generate_report"
              => tool_log[n].outer.shape = "mapping"
        /\ tool_log[n].name = "generate_report"
              => tool_log[n].outer.shape = "str"

C14_Witness ==
    /\ \E n \in Succeeded : tool_log[n].name = "generate_report"
    /\ \E n \in Succeeded : tool_log[n].name = "scrape_product_data"

\* C15: the registry of the agent is the four tools scrape_product_data,
\* analyze_competitors, analyze_sentiment, generate_report in that order,
\* in every state of a run.
C15_RegistryFixed ==
    self_tools = <<"scrape_product_data", "analyze_competitors",
                   "analyze_sentiment", "generate_report">>

C15_Witness ==
    /\ pc = "done"
    /\ Len(tool_log) >= 2
    /\ \E n \in DOMAIN tool_log : tool_log[n].name \notin ToolNames

\* C18: every step of the loop leaves the messages already in the
\* transcript where they are and only adds messages at the end.
C18_AppendOnly ==
    [][/\ Len(messages') >= Len(messages)
       /\ SubSeq(messages', 1, Len(messages)) = messages]_vars

C18_Witness ==
    /\ Len(messages) >= 5
    /\ Cardinality(AIIndices) >= 2
    /\ Cardinality(ToolIndices) >= 2

\* C19: every model invocation gets the system instruction first, then the
\* one human message naming the subject, then the rest of the transcript
\* in order; and a request is handed to the tools node only once the
\* model message that carries it is in the transcript.
C19_ModelInputAndResponseFirst ==
    /\ llm_calls > 0 =>
          /\ llm_input[1] = SystemMessage(system_prompt)
          /\ llm_input[2] = HumanMessage(<<"Analyze the market for the product:">>
                                            \o product_name)
          /\ \A j \in 3..Len(llm_input) : llm_input[j].type \in {"ai", "tool"}
          /\ Len(llm_input) - 1 <= Len(messages)
          /\ Tail(llm_input) = SubSeq(messages, 1, Len(llm_input) - 1)
          /\ IF outcome = "ModelError"
             THEN Len(llm_input) - 1 = Len(messages)
             ELSE Len(llm_input) = Max(AIIndices)
    /\ \A n \in DOMAIN tool_log :
          \E i \in AIIndices : \E k \in DOMAIN messages[i].tool_calls :
              /\ messages[i].tool_calls[k].id = tool_log[n].id
              /\ Answers(tool_log[n].id) # {}
              /\ \A j \in Answers(tool_log[n].id) : i < j
    /\ pc = "tools" =>
          \A k \in DOMAIN Last(messages).tool_calls :
              \A n \in DOMAIN tool_log :
                  tool_log[n].id # Last(messages).tool_calls[k].id

C19_Witness ==
    /\ llm_calls >= 2
    /\ Len(llm_input) >= 5
    /\ Len(tool_log) >= 2
    /\ outcome = "returned"

\* The transcript an invocation running alone has after the model gave
\* the responses of `script`, the requests of the first `served` of them
\* answered by the tools node.
RECURSIVE Replay(_, _, _)
Replay(subject, script, served) ==
    IF script = << >> THEN initial_state(subject)
    ELSE LET n      == Len(script)
             before == Replay(subject, SubSeq(script, 1, n - 1), n - 1)
             withAI == agent_node(before, script[n])
         IN  IF served >= n /\ script[n].tool_calls # << >>
             THEN withAI \o ToolNodeOutputs(script[n].tool_calls, Len(before) + 1)
             ELSE withAI

\* An invocation in state `inv` that was given `script` is where it would
\* be had it run alone with the same request and the same responses.
AsIfAlone(inv, script) ==
    LET subject == inv.http.request.product_name.value
        served  == IF inv.pc = "tools" THEN Len(script) - 1 ELSE Len(script)
        solo    == Replay(subject, script, served)
    IN  /\ inv.product_name = subject
        /\ inv.messages = solo
        /\ inv.self_tools = tools
        /\ inv.outcome = "returned" =>
              /\ inv.result.report = ExtractReport(solo)
              /\ inv.result.steps_executed = StepsExecuted(solo)
              /\ inv.http.body = AnalysisResponse(RunResult(subject, solo))

\* C17: with two /analyze invocations in flight, under every interleaving
\* of their steps, the transcript, the report and steps_executed of each
\* are those of the same invocation running alone.
C17_InvocationsIsolated ==
    sched.parked # NoParked =>
        /\ AsIfAlone(Own, sched.scripts[sched.current])
        /\ AsIfAlone(sched.parked, sched.scripts[3 - sched.current])

C17_Witness ==
    /\ sched.parked # NoParked
    /\ outcome = "returned"
    /\ sched.parked.outcome = "returned"
    /\ Len(messages) >= 4
    /\ Len(sched.parked.messages) >= 4
    /\ sched.parked.llm_calls = 2
    /\ llm_calls = 2

\* The model or the construction of the agent has raised.
CollaboratorFailed == outcome \in {"ModelError", "ConstructionError"}

\* C16: when the construction of the agent or a model turn raises, the
\* failure leaves run: run returns no result, the caller gets the failure
\* and answers 500 without a report, whatever the transcript holds.
C16_ModelFailurePropagates ==
    /\ llm_calls > Cardinality(AIIndices) => outcome = "ModelError"
    /\ CollaboratorFailed =>
          /\ pc = "raised"
          /\ result = NoResult
          /\ http.stage = "responded"
          /\ http.status = 500
          /\ DOMAIN http.body = {"detail"}
          /\ http.body.detail = <<outcome>>
    /\ outcome = "ConstructionError" =>
          /\ messages = << >>
          /\ self_tools = << >>
          /\ llm_calls = 0

C16_Witness ==
    /\ outcome = "ModelError"
    /\ llm_calls >= 2
    /\ \E j \in ToolIndices :
          /\ messages[j].name = "generate_report"
          /\ messages[j].status = "success"
          /\ HasMarker(messages[j].content)

\* The request has been answered.
Responded == http.stage = "responded"

\* The agent was neither constructed nor run.
NeverConstructed ==
    /\ self_tools = << >>
    /\ messages = << >>
    /\ llm_calls = 0
    /\ outcome = "running"

\* C20 as claimed: 422 exactly when product_name is missing or empty or
\* analysis_type is not a known value; 500 when constructing or running
\* raises; otherwise 200 with success true and the product_name, report
\* and steps_executed of the run.
C20_ThreeOutcomesAsClaimed ==
    Responded =>
        /\ http.status \in {422, 500, 200}
        /\ http.status = 422 <=>
              \/ ~http.request.product_name.given
              \/ http.request.product_name.value = EmptyString
              \/ /\ http.request.analysis_type.given
                 /\ http.request.analysis_type.value[1] \notin AnalysisTypes
        /\ http.status = 422 => NeverConstructed
        /\ http.status = 500 <=> pc = "raised"
        /\ http.status = 200 =>
              /\ http.body.success
              /\ http.body.product_name = result.product_name
              /\ http.body.report = result.report
              /\ http.body.steps_executed = result.steps_executed

\* C20 as amended: 422 exactly when the body fails the validation of
\* AnalysisRequest, which a non-boolean include_recommendations also does
\* (the agent is then never constructed or run); 500 exactly when
\* constructing or running raises; otherwise 200 with success true, the
\* product_name and steps_executed of the run and the text of its report.
C20_ThreeOutcomes ==
    /\ pc \in {"done", "raised", "responded"} <=> Responded
    /\ Responded =>
        /\ http.status \in {422, 500, 200}
        /\ http.status = 422 <=> ~AnalysisRequestValid(http.request)
        /\ http.status = 422 => NeverConstructed /\ pc = "responded"
        /\ http.status = 500 <=> pc = "raised"
        /\ http.status = 500 => DOMAIN http.body = {"detail"}
        /\ http.status = 200 <=> outcome = "returned"
        /\ http.status = 200 =>
              /\ http.body.success
              /\ http.body.product_name = result.product_name
              /\ http.body.product_name = http.request.product_name.value
              /\ http.body.report = extract_text_from_response(result.report)
              /\ http.body.steps_executed = result.steps_executed

C20_Witness ==
    /\ Responded
    /\ http.status = 422
    /\ http.request.product_name.given
    /\ http.request.product_name.value # EmptyString
    /\ ~http.request.analysis_type.given
    /\ http.request.include_recommendations.value = <<"perhaps">>

\* ====================================================== claims C21 - C30
\* Requests for a registered tool whose arguments fail the input schema.
InvalidRequests ==
    {<<i, k>> \in AIIndices \X (1..MaxCallsPerTurn) :
        /\ k <= Len(messages[i].tool_calls)
        /\ messages[i].tool_calls[k].name \in ToolNames
        /\ ~messages[i].tool_calls[k].args.valid}

\* C22: a request whose arguments do not match the input schema of the
\* tool never enters the tool body; it is answered by a failed tool-result
\* message, and the loop goes on to the next model turn.
C22_InvalidArgumentsRecovered ==
    /\ outcome # "ToolError"
    /\ \A r \in InvalidRequests :
          LET i    == r[1]
              k    == r[2]
              call == messages[i].tool_calls[k]
          IN  /\ call.id \notin body_runs
              /\ \A n \in DOMAIN tool_log :
                    tool_log[n].id = call.id => ~tool_log[n].entered
              /\ i < Len(messages) =>
                    /\ messages[i + k].type = "tool"
                    /\ messages[i + k].tool_call_id = call.id
                    /\ messages[i + k].status = "error"
                    /\ \/ pc = "agent"
                       \/ NextAI(i) <= Len(messages)
                       \/ outcome = "ModelError"

C22_Witness ==
    \E r \in InvalidRequests :
        /\ NextAI(r[1]) <= Len(messages)
        /\ messages[r[1] + r[2]].status = "error"
        /\ outcome = "returned"

\* Model messages that carry no request.
PlainAI == {i \in AIIndices : messages[i].tool_calls = << >>}

\* C23: the loop is done at the first model message without a request,
\* whichever tools ran before; no model invocation and no tool execution
\* follows, and the transcript that run extracts from ends with it.
C23_DoneAtFirstPlainTurn ==
    /\ [](/\ PlainAI # {} <=> pc = "done"
          /\ PlainAI \subseteq {Len(messages)}
          /\ pc = "done" =>
                /\ decision = "end"
                /\ llm_calls = Cardinality(AIIndices)
                /\ Len(tool_log) = Cardinality(ToolIndices)
                /\ result = RunResult(product_name, messages))
    /\ [][pc = "done" => /\ llm_calls' = llm_calls
                         /\ tool_log' = tool_log
                         /\ messages' = messages]_vars

C23_Witness ==
    /\ pc = "done"
    /\ ReportToolIndices = {}
    /\ Len(tool_log) >= 1

\* C24: with several generate_report tool-results in the finished
\* transcript, run returns the content of the most recent one, also when
\* that one is an error and an earlier one is a report.
C24_LatestReportToolResult ==
    (outcome = "returned" /\ Cardinality(ReportToolIndices) >= 2)
        => result.report = messages[Max(ReportToolIndices)].content

\* C26: the report run returns is never the content of the human message
\* that opens the transcript; it is the content of a model message or of
\* a tool-result message.
C26_ReportNeverTheRequest ==
    outcome = "returned" =>
        /\ result.report # messages[1].content
        /\ \E j \in AIIndices \cup ToolIndices :
              result.report = messages[j].content

\* The model message nearest before position j.
PrecedingAI(j) == Max({i \in AIIndices : i < j})

\* C27: every tool-result answers a request of the nearest model message
\* before it; the tools node executes what the latest model turn asked
\* for and nothing else.
C27_ResultsAnswerLatestTurn ==
    /\ \A j \in ToolIndices :
          /\ {i \in AIIndices : i < j} # {}
          /\ LET i == PrecedingAI(j)
             IN  /\ j - i \in DOMAIN messages[i].tool_calls
                 /\ messages[i].tool_calls[j - i].id = messages[j].tool_call_id
                 /\ messages[i].tool_calls[j - i].name = messages[j].name
    /\ \A n \in DOMAIN tool_log :
          \E j \in ToolIndices :
              /\ ToolCountBefore(j) = n - 1
              /\ tool_log[n].id = messages[j].tool_call_id
              /\ tool_log[n].id \in
                    {messages[PrecedingAI(j)].tool_calls[k].id :
                        k \in DOMAIN messages[PrecedingAI(j)].tool_calls}

C27_Witness ==
    /\ Cardinality({i \in AIIndices : messages[i].tool_calls # << >>}) >= 2
    /\ Cardinality(ToolIndices) >= 2
    /\ pc = "done"

\* C28: a successful generate_report call returns a text that holds the
\* signature marker; when the latest message of a finished transcript
\* that holds the marker is such a tool-result, run returns its content.
C28_ReportCarriesMarker ==
    /\ \A n \in Succeeded :
          tool_log[n].name = "generate_report"
             => HasMarker(tool_log[n].outer.value)
    /\ \A j \in ReportToolIndices :
          messages[j].status = "success" => HasMarker(messages[j].content)
    /\ (outcome = "returned" /\ MarkerIndices # {}
          /\ Max(MarkerIndices) \in ReportToolIndices
          /\ messages[Max(MarkerIndices)].status = "success")
          => result.report = messages[Max(MarkerIndices)].content

C28_Witness ==
    /\ outcome = "returned"
    /\ MarkerIndices # {}
    /\ Max(MarkerIndices) \in ReportToolIndices
    /\ messages[Max(MarkerIndices)].status = "success"
    /\ Max(MarkerIndices) < Len(messages) - 1

\* What serving a valid request has come to, told from product_name, the
\* responses of the model and the failing tools alone.  The requests of
\* the last response are not served yet while the tools node is due, nor
\* when the recursion limit cut the loop right after the model.
FromSubjectAlone(subject, script) ==
    LET cut    == outcome = "GraphRecursionError" /\ 2 * llm_calls > step
        served == IF pc = "tools" \/ cut THEN Len(script) - 1 ELSE Len(script)
        solo   == Replay(subject, script, served)
    IN  /\ product_name = subject
        /\ self_tools = tools
        /\ messages = solo
        /\ http.status \in {0, 200, 500}
        /\ http.status = 200 <=> outcome = "returned"
        /\ http.status = 200 =>
              http.body = AnalysisResponse(RunResult(subject, solo))
        /\ http.status = 500 => http.body = [detail |-> <<outcome>>]

\* C30: what POST /analyze does with a valid request depends on its
\* product_name only: run is called with product_name, the agent has the
\* full tool set, and the response is the one the model's and the tools'
\* behaviour give, whatever analysis_type and include_recommendations say.
C30_OnlyProductNameMatters ==
    (pc \in {"agent", "tools", "done"} \/ outcome \in {"ModelError",
                                                    "GraphRecursionError"})
        => FromSubjectAlone(http.request.product_name.value, sched.scripts[1])

C30_Witness ==
    /\ http.status = 200
    /\ http.request.analysis_type = Given(<<"product_only">>)
    /\ http.request.include_recommendations = Given(<<"false">>)
    /\ \E n \in Succeeded : tool_log[n].name = "analyze_competitors"
    /\ \E n \in Succeeded : tool_log[n].name = "generate_report"

\* C25 as claimed: generate returns a report and never raises, and
\* _parse_json_safely gives a mapping for each of the three inputs: the
\* dict itself, the parsed object, or an empty mapping for anything else.
C25_GenerateNeverRaises ==
    report_call.stage = "ended" =>
        /\ ~report_call.outcome.raised
        /\ HasMarker(report_call.outcome.report)
        /\ \A i \in 1..3 :
              /\ ~report_call.outcome.parsed[i].raised
              /\ report_call.outcome.parsed[i].value.py = "dict"

\* Callers of the cache that are about to write or remove the file.
Writers == {p \in CacheProcs : cache.procs[p].pc \in {"open", "write", "unlink"}}

\* C21 as claimed: a key has at most one writer at a time, and a get that
\* wrote the entry back or removed it replaced the very entry it had read.
C21_OneWriterPerKey ==
    /\ Cardinality(Writers) <= 1
    /\ \A p \in CacheProcs :
          LET last == cache.procs[p].last
          IN  (last.op = "get" /\ last.acted \in {"wrote", "unlinked"})
                 => /\ last.replaced.state = "written"
                    /\ last.replaced.entry = last.seen

Absent29 == [present |-> FALSE, data |-> "None", expiry |-> 0]

\* The entry of `key` after the calls of `history`, as the claim has it:
\* set stores the data until set-time plus ttl_hours when ttl_hours is
\* passed, plus the default when it is not; a get after that removes it.
RECURSIVE ClaimedEntry(_, _)
ClaimedEntry(history, key) ==
    IF history = << >> THEN Absent29
    ELSE LET call == history[Len(history)]
             prev == ClaimedEntry(SubSeq(history, 1, Len(history) - 1), key)
         IN  IF call.key # key THEN prev
             ELSE IF call.op = "set"
             THEN [present |-> TRUE, data |-> call.data,
                   expiry |-> call.at + (IF call.ttl_hours.given
                                         THEN call.ttl_hours.hours
                                         ELSE default_ttl_hours)]
             ELSE IF prev.present /\ call.at > prev.expiry THEN Absent29
             ELSE prev

\* C29 as claimed: get returns the data of the latest set exactly until
\* set-time plus ttl_hours (0 included) or plus the default when ttl_hours
\* is left out; the first get after that returns None and removes the
\* entry, and so do later gets until the next set.
C29_EntryLivesUntilExpiry ==
    /\ \A n \in DOMAIN cache.history :
          LET call == cache.history[n]
              prev == ClaimedEntry(SubSeq(cache.history, 1, n - 1), call.key)
          IN  call.op = "get" =>
                 call.returned = IF prev.present /\ call.at <= prev.expiry
                                 THEN prev.data
                                 ELSE "None"
    /\ \A key \in CacheKeys :
          LET claimed == ClaimedEntry(cache.history, key)
              file    == cache.files[key]
          IN  /\ file.state = "written" <=> claimed.present
              /\ claimed.present =>
                    /\ file.entry.data = claimed.data
                    /\ file.entry.expires_at = claimed.expiry
====
